---- MODULE Spec2Model ----
(***************************************************************************)
(* The RESP codec of src/src/lib.rs: RESPValue::parse (bytes to a value    *)
(* plus the remaining bytes), RESPValue::format (a value to wire bytes)    *)
(* and the helpers they call.                                              *)
(*                                                                         *)
(* Bytes are naturals 0..255.  A Rust String is the sequence of its chars  *)
(* (code points); the parser builds Strings with `byte as char`, the       *)
(* formatter writes a String as its UTF-8 bytes.  A Result is a record:    *)
(* Ok(val, rest), Err(e), or Panic for an index out of bounds.             *)
(* Option<T> is a sequence of length 0 (None) or 1 (Some).                 *)
(***************************************************************************)
EXTENDS Integers, Sequences, FiniteSets, TLC

VARIABLES input, reads, parsed, value, output, converted

vars == <<input, reads, parsed, value, output, converted>>

---------------------------------------------------------------------------
(* Byte literals of the source *)
PLUS == 43
MINUS == 45
COLON == 58
DOLLAR == 36
STAR == 42
CR == 13
LF == 10
ZERO == 48
NINE == 57

\* const CLRF: &str = "\r\n"
CLRF == <<CR, LF>>

---------------------------------------------------------------------------
(* Bounds of the check *)
MaxChunks == 5
MaxText == 2
MaxElems == 2

---------------------------------------------------------------------------
(* Option and Result *)
None == <<>>
Some(x) == <<x>>

Ok(v, rest) == [kind |-> "Ok", val |-> v, rest |-> rest]
Err(e) == [kind |-> "Err", err |-> e]
\* an index past the end of a slice: the thread panics
Panic == [kind |-> "Panic"]

\* enum ParseError
UnknownDataType(c) == <<"UnknownDataType", c>>
NotEnoughBytes == <<"NotEnoughBytes">>
UnexpectedNonNumericCharacter(c) == <<"UnexpectedNonNumericCharacter", c>>
MissingCLRF == <<"MissingCLRF">>
NegativeValueLength == <<"NegativeValueLength">>

\* enum RESPDataType
RESPDataType == { "SimpleString", "Error", "Integer", "BulkString", "Array" }

\* enum RESPValue
Integer(i) == [type |-> "Integer", i |-> i]
BulkString(s) == [type |-> "BulkString", s |-> s]
SimpleString(s) == [type |-> "SimpleString", s |-> s]
Error(s) == [type |-> "Error", s |-> s]
Array(a) == [type |-> "Array", a |-> a]

---------------------------------------------------------------------------
(* Parsing *)

\* impl Into<u8> for RESPDataType
into_u8(t) ==
  IF t = "SimpleString" THEN PLUS
  ELSE IF t = "Error" THEN MINUS
  ELSE IF t = "Integer" THEN COLON
  ELSE IF t = "BulkString" THEN DOLLAR
  ELSE STAR

\* TryFrom<u8> with a last arm that defaults to SimpleString
try_from_u8_defaulting(b) ==
  IF b = MINUS THEN Ok("Error", <<>>)
  ELSE IF b = COLON THEN Ok("Integer", <<>>)
  ELSE IF b = DOLLAR THEN Ok("BulkString", <<>>)
  ELSE IF b = STAR THEN Ok("Array", <<>>)
  ELSE Ok("SimpleString", <<>>)

\* impl TryFrom<u8> for RESPDataType
try_from_u8(b) ==
  IF b = PLUS THEN Ok("SimpleString", <<>>)
  ELSE IF b = MINUS THEN Ok("Error", <<>>)
  ELSE IF b = COLON THEN Ok("Integer", <<>>)
  ELSE IF b = DOLLAR THEN Ok("BulkString", <<>>)
  ELSE IF b = STAR THEN Ok("Array", <<>>)
  ELSE Err(UnknownDataType(b))

\* RESPDataType::from_bytes
from_bytes(bytes) ==
  IF bytes = <<>> THEN Err(NotEnoughBytes)
  ELSE LET t == try_from_u8(bytes[1])
       IN IF t.kind # "Ok" THEN t ELSE Ok(t.val, Tail(bytes))

\* validate_clrf: bytes must start with CR LF; the rest is returned
validate_clrf(bytes) ==
  IF Len(bytes) >= 2 /\ bytes[1] = CR /\ bytes[2] = LF
  THEN Ok(<<>>, SubSeq(bytes, 3, Len(bytes)))
  ELSE Err(MissingCLRF)

\* the while loop of parse_integer_value
RECURSIVE integer_loop(_, _)
integer_loop(bytes, num) ==
  IF bytes # <<>> /\ bytes[1] # CR
  THEN LET digit == bytes[1]
       IN IF digit < ZERO \/ digit > NINE
          THEN Err(UnexpectedNonNumericCharacter(digit))
          ELSE integer_loop(Tail(bytes), num * 10 + (digit - ZERO))
  ELSE Ok(num, bytes)

\* parse_integer_value with a scan that stops at any byte that is not a
\* digit, leaving it to the terminator check
RECURSIVE integer_loop_lenient(_, _)
integer_loop_lenient(bytes, num) ==
  IF bytes # <<>> /\ bytes[1] >= ZERO /\ bytes[1] <= NINE
  THEN integer_loop_lenient(Tail(bytes), num * 10 + (bytes[1] - ZERO))
  ELSE Ok(num, bytes)
parse_integer_value_lenient(bytes) ==
  IF bytes = <<>> THEN Panic
  ELSE LET is_negative == bytes[1] = MINUS
           r == integer_loop_lenient(IF is_negative THEN Tail(bytes) ELSE bytes, 0)
           num == IF is_negative THEN 0 - r.val ELSE r.val
           c == validate_clrf(r.rest)
       IN IF c.kind # "Ok" THEN c ELSE Ok(num, c.rest)

\* parse_integer_value: a CRLF-terminated number.  bytes[0] is read before
\* any emptiness test.  (The bounded inputs stay far below the i64 range.)
parse_integer_value(bytes) ==
  IF bytes = <<>> THEN Panic
  ELSE LET is_negative == bytes[1] = MINUS
           r == integer_loop(IF is_negative THEN Tail(bytes) ELSE bytes, 0)
       IN IF r.kind # "Ok" THEN r
          ELSE LET num == IF is_negative THEN 0 - r.val ELSE r.val
                   c == validate_clrf(r.rest)
               IN IF c.kind # "Ok" THEN c ELSE Ok(num, c.rest)

\* the while-let loop of parse_simple_string_contents
RECURSIVE simple_string_loop(_, _)
simple_string_loop(bytes, s) ==
  IF validate_clrf(bytes).kind = "Ok" THEN Ok(s, bytes)
  ELSE IF bytes = <<>> THEN Panic
  ELSE IF Tail(bytes) = <<>> THEN Err(MissingCLRF)
  ELSE simple_string_loop(Tail(bytes), Append(s, bytes[1]))

\* parse_simple_string_contents with a scan that stops at the first CR, as
\* parse_integer_value's does
RECURSIVE simple_string_loop_to_cr(_, _)
simple_string_loop_to_cr(bytes, s) ==
  IF bytes # <<>> /\ bytes[1] # CR
  THEN simple_string_loop_to_cr(Tail(bytes), Append(s, bytes[1]))
  ELSE Ok(s, bytes)
parse_simple_string_contents_to_cr(bytes) ==
  LET r == simple_string_loop_to_cr(bytes, <<>>)
      c == validate_clrf(r.rest)
  IN IF c.kind # "Ok" THEN c ELSE Ok(r.val, c.rest)

\* parse_simple_string_contents ending the text at the last CR LF pair of
\* the buffer instead of the first
parse_simple_string_contents_greedy(bytes) ==
  LET ends == { j \in 1..Len(bytes) :
                  validate_clrf(SubSeq(bytes, j, Len(bytes))).kind = "Ok" }
  IN IF ends = {} THEN Err(MissingCLRF)
     ELSE LET j == CHOOSE j \in ends : \A i \in ends : i <= j
          IN Ok(SubSeq(bytes, 1, j - 1), SubSeq(bytes, j + 2, Len(bytes)))

\* parse_simple_string_contents
parse_simple_string_contents(bytes) ==
  LET r == simple_string_loop(bytes, <<>>)
  IN IF r.kind # "Ok" THEN r
     ELSE LET c == validate_clrf(r.rest)
          IN IF c.kind # "Ok" THEN c ELSE Ok(r.val, c.rest)

\* parse_array_len taking every negative length for the null marker
parse_array_len_any_negative(bytes) ==
  LET r == parse_integer_value(bytes)
  IN IF r.kind # "Ok" THEN r
     ELSE IF r.val >= 0 THEN Ok(Some(r.val), r.rest)
     ELSE Ok(None, r.rest)

\* parse_array_len
parse_array_len(bytes) ==
  LET r == parse_integer_value(bytes)
  IN IF r.kind # "Ok" THEN r
     ELSE IF r.val >= 0 THEN Ok(Some(r.val), r.rest)
     ELSE IF r.val = -1 THEN Ok(None, r.rest)
     ELSE Err(NegativeValueLength)

\* parse_bulk_string_contents with the length test bytes.len() < len
parse_bulk_string_contents_lt(bytes) ==
  LET r == parse_array_len(bytes)
  IN IF r.kind # "Ok" THEN r
     ELSE IF r.val # None
     THEN LET len == r.val[1]
          IN IF Len(r.rest) < len THEN Err(NotEnoughBytes)
             ELSE LET s == SubSeq(r.rest, 1, len)
                      c == validate_clrf(SubSeq(r.rest, len + 1, Len(r.rest)))
                  IN IF c.kind # "Ok" THEN c ELSE Ok(Some(s), c.rest)
     ELSE Ok(None, r.rest)

\* parse_bulk_string_contents without the terminator check after the payload
parse_bulk_string_contents_unchecked(bytes) ==
  LET r == parse_array_len(bytes)
  IN IF r.kind # "Ok" THEN r
     ELSE IF r.val # None
     THEN LET len == r.val[1]
          IN IF Len(r.rest) <= len THEN Err(NotEnoughBytes)
             ELSE Ok(Some(SubSeq(r.rest, 1, len)),
                     SubSeq(r.rest, len + 1, Len(r.rest)))
     ELSE Ok(None, r.rest)

\* parse_bulk_string_contents
parse_bulk_string_contents(bytes) ==
  LET r == parse_array_len(bytes)
  IN IF r.kind # "Ok" THEN r
     ELSE IF r.val # None
     THEN LET len == r.val[1]
          IN IF Len(r.rest) <= len THEN Err(NotEnoughBytes)
             ELSE LET s == SubSeq(r.rest, 1, len)
                      c == validate_clrf(SubSeq(r.rest, len + 1, Len(r.rest)))
                  IN IF c.kind # "Ok" THEN c ELSE Ok(Some(s), c.rest)
     ELSE Ok(None, r.rest)

RECURSIVE RESPValue_parse(_)
RECURSIVE parse_elements(_, _, _)

\* the fold over 0..len keeping the elements parsed so far when one fails
parse_elements_partial(n, vec, bytes) ==
  IF n = 0 THEN Ok(vec, bytes)
  ELSE LET r == RESPValue_parse(bytes)
       IN IF r.kind # "Ok" THEN Ok(vec, bytes)
          ELSE parse_elements(n - 1, Append(vec, r.val), r.rest)

\* the try_fold over 0..len in the Array arm of RESPValue::parse
parse_elements(n, vec, bytes) ==
  IF n = 0 THEN Ok(vec, bytes)
  ELSE LET r == RESPValue_parse(bytes)
       IN IF r.kind # "Ok" THEN r
          ELSE parse_elements(n - 1, Append(vec, r.val), r.rest)

\* RESPValue::parse
RESPValue_parse(bytes) ==
  LET t == from_bytes(bytes)
  IN IF t.kind # "Ok" THEN t
     ELSE IF t.val = "Integer"
     THEN LET r == parse_integer_value(t.rest)
          IN IF r.kind # "Ok" THEN r ELSE Ok(Integer(r.val), r.rest)
     ELSE IF t.val = "BulkString"
     THEN LET r == parse_bulk_string_contents(t.rest)
          IN IF r.kind # "Ok" THEN r ELSE Ok(BulkString(r.val), r.rest)
     ELSE IF t.val = "SimpleString"
     THEN LET r == parse_simple_string_contents(t.rest)
          IN IF r.kind # "Ok" THEN r ELSE Ok(SimpleString(r.val), r.rest)
     ELSE IF t.val = "Error"
     THEN LET r == parse_simple_string_contents(t.rest)
          IN IF r.kind # "Ok" THEN r ELSE Ok(Error(r.val), r.rest)
     ELSE LET l == parse_array_len(t.rest)
          IN IF l.kind # "Ok" THEN l
             ELSE IF l.val = None THEN Ok(Array(None), l.rest)
             ELSE LET r == parse_elements(l.val[1], <<>>, l.rest)
                  IN IF r.kind # "Ok" THEN r ELSE Ok(Array(Some(r.val)), r.rest)

---------------------------------------------------------------------------
(* Formatting *)

\* Display of a non-negative integer: its decimal digits
RECURSIVE DecNat(_)
DecNat(n) ==
  IF n < 10 THEN <<ZERO + n>> ELSE DecNat(n \div 10) \o <<ZERO + (n % 10)>>

\* Display of an i64 / usize, as write!(f, "{}", i) prints it
Dec(i) == IF i < 0 THEN <<MINUS>> \o DecNat(0 - i) ELSE DecNat(i)

\* the UTF-8 bytes of one char (code points below 0x800)
Utf8Char(c) ==
  IF c < 128 THEN <<c>> ELSE <<192 + (c \div 64), 128 + (c % 64)>>

\* the bytes write!(f, "{}", s) emits for a String, s.len() of them
RECURSIVE Utf8(_)
Utf8(s) == IF s = <<>> THEN <<>> ELSE Utf8Char(Head(s)) \o Utf8(Tail(s))

RECURSIVE format(_, _)
RECURSIVE format_values(_, _)

\* for v in values { v.format(f, clrf)?; }
format_values(values, clrf) ==
  IF values = <<>> THEN <<>>
  ELSE format(Head(values), clrf) \o format_values(Tail(values), clrf)

\* RESPValue::format: the match, then the closing write!(f, "{}", clrf)
format(v, clrf) ==
  (IF v.type = "Integer" THEN <<COLON>> \o Dec(v.i)
   ELSE IF v.type = "BulkString"
   THEN IF v.s # None
        THEN <<DOLLAR>> \o Dec(Len(Utf8(v.s[1]))) \o clrf \o Utf8(v.s[1])
        ELSE <<DOLLAR, MINUS, ZERO + 1>>
   ELSE IF v.type = "Error" THEN <<MINUS>> \o Utf8(v.s)
   ELSE IF v.type = "SimpleString" THEN <<PLUS>> \o Utf8(v.s)
   ELSE IF v.a # None
        THEN <<STAR>> \o Dec(Len(v.a[1])) \o clrf \o format_values(v.a[1], clrf)
        ELSE <<STAR, MINUS, ZERO + 1>>)
  \o clrf

\* Display rendering the null bulk string as the empty one
Display_null_as_empty(v) ==
  IF v = BulkString(None) THEN format(BulkString(Some(<<>>)), CLRF)
  ELSE format(v, CLRF)

\* impl Display for RESPValue
Display(v) == format(v, CLRF)

-----------------------------------------------------------------------------
(* Typed projections: the TryFrom<RESPValue> impls *)

\* Ok(x) of a conversion
OkValue(x) == [kind |-> "Ok", val |-> x]

\* enum RESPValueConversionError, fields (expected, actual)
DataTypeMismatch(expected, actual) == <<"DataTypeMismatch", expected, actual>>

\* the wrapper structs BulkString(Option<String>), SimpleString(String) and
\* RESPError(String)
BulkString_struct(s) == [struct |-> "BulkString", f0 |-> s]
SimpleString_struct(s) == [struct |-> "SimpleString", f0 |-> s]
RESPError_struct(s) == [struct |-> "RESPError", f0 |-> s]

\* RESPValue::data_type
data_type(v) ==
  IF v.type = "Integer" THEN "Integer"
  ELSE IF v.type = "BulkString" THEN "BulkString"
  ELSE IF v.type = "SimpleString" THEN "SimpleString"
  ELSE IF v.type = "Error" THEN "Error"
  ELSE "Array"

\* TryFrom<RESPValue> for i64 with the two fields of the error exchanged
try_from_i64_swapped(value_) ==
  IF value_.type = "Integer" THEN OkValue(value_.i)
  ELSE Err(DataTypeMismatch(data_type(value_), "Integer"))

\* impl TryFrom<RESPValue> for i64
try_from_i64(value_) ==
  IF value_.type = "Integer" THEN OkValue(value_.i)
  ELSE Err(DataTypeMismatch("Integer", data_type(value_)))

\* impl TryFrom<RESPValue> for BulkString
try_from_BulkString(value_) ==
  IF value_.type = "BulkString" THEN OkValue(BulkString_struct(value_.s))
  ELSE Err(DataTypeMismatch("BulkString", data_type(value_)))

\* impl TryFrom<RESPValue> for SimpleString
try_from_SimpleString(value_) ==
  IF value_.type = "SimpleString" THEN OkValue(SimpleString_struct(value_.s))
  ELSE Err(DataTypeMismatch("SimpleString", data_type(value_)))

\* impl TryFrom<RESPValue> for RESPError
try_from_RESPError(value_) ==
  IF value_.type = "Error" THEN OkValue(RESPError_struct(value_.s))
  ELSE Err(DataTypeMismatch("Error", data_type(value_)))

\* the target types of the projections: the four scalars, and Option<Vec<T>>
\* of a target T
i64 == [name |-> "i64"]
BulkStringT == [name |-> "BulkString"]
SimpleStringT == [name |-> "SimpleString"]
RESPErrorT == [name |-> "RESPError"]
OptionVec(T) == [name |-> "OptionVec", of |-> T]

RECURSIVE try_from(_, _)
RECURSIVE try_from_OptionVec(_, _)
RECURSIVE collect(_, _, _)

\* collecting that goes on after a failing element and ends in the error of
\* the last one that failed
collect_to_the_end(T, values, vec) ==
  IF values = <<>> THEN OkValue(vec)
  ELSE LET r == try_from(T, Head(values))
           more == collect(T, Tail(values),
                           IF r.kind = "Ok" THEN Append(vec, r.val) ELSE vec)
       IN IF more.kind # "Ok" THEN more
          ELSE IF r.kind # "Ok" THEN r
          ELSE more

\* values.into_iter().map(T::try_from).collect() into a Result: it ends at
\* the first Err
collect(T, values, vec) ==
  IF values = <<>> THEN OkValue(vec)
  ELSE LET r == try_from(T, Head(values))
       IN IF r.kind # "Ok" THEN r
          ELSE collect(T, Tail(values), Append(vec, r.val))

\* impl<T> TryFrom<RESPValue> for Option<Vec<T>>
try_from_OptionVec(T, value_) ==
  IF value_.type = "Array"
  THEN IF value_.a # None
       THEN LET converted_ == collect(T, value_.a[1], <<>>)
            IN IF converted_.kind # "Ok" THEN converted_
               ELSE OkValue(Some(converted_.val))
       ELSE OkValue(None)
  ELSE Err(DataTypeMismatch("Array", data_type(value_)))

\* T::try_from, resolved by the target type
try_from(T, value_) ==
  IF T.name = "i64" THEN try_from_i64(value_)
  ELSE IF T.name = "BulkString" THEN try_from_BulkString(value_)
  ELSE IF T.name = "SimpleString" THEN try_from_SimpleString(value_)
  ELSE IF T.name = "RESPError" THEN try_from_RESPError(value_)
  ELSE try_from_OptionVec(T.of, value_)

---------------------------------------------------------------------------
(* Inputs of the check *)

\* the pieces input buffers are put together from: the five tags (MINUS is
\* also the sign), three digits, CR, LF and the terminator
Chunks == { <<PLUS>>, <<MINUS>>, <<COLON>>, <<DOLLAR>>, <<STAR>>,
            <<ZERO>>, <<ZERO + 1>>, <<ZERO + 2>>, <<CR>>, <<LF>>, CLRF }

\* sequences over S of length at most n
SeqUpTo(S, n) == UNION { [1..k -> S] : k \in 0..n }

\* chars of the Strings values are built from: a letter, CR, LF, U+00E9
CharVals == { 97, CR, LF, 233 }
Texts == SeqUpTo(CharVals, MaxText)
IntVals == { -12, -1, 0, 7, 10 }

ScalarVals ==
  { Integer(i) : i \in IntVals } \cup { BulkString(None) }
  \cup { BulkString(Some(s)) : s \in Texts }
  \cup { SimpleString(s) : s \in Texts } \cup { Error(s) : s \in Texts }

\* elements of the arrays: a few scalars, then arrays of those
LeafVals ==
  { Integer(7), Integer(-1), BulkString(None), BulkString(Some(<<97>>)),
    SimpleString(<<97>>), Error(<<>>) }
InnerArrays ==
  { Array(None) } \cup { Array(Some(a)) : a \in SeqUpTo(LeafVals, 1) }
ArrayVals ==
  { Array(None) }
  \cup { Array(Some(a)) : a \in SeqUpTo(LeafVals \cup InnerArrays, MaxElems) }

Values == ScalarVals \cup ArrayVals

\* element types of the Option<Vec<T>> projections: the scalars and the
\* vectors of scalars
ScalarTargets == { i64, BulkStringT, SimpleStringT, RESPErrorT }
ElementTargets == ScalarTargets \cup { OptionVec(T) : T \in ScalarTargets }

---------------------------------------------------------------------------
Init ==
  /\ input = <<>>
  /\ reads = 0
  /\ parsed = None
  /\ value = None
  /\ output = None
  /\ converted = None

\* the caller's buffer grows by one piece
Recv ==
  /\ value = None
  /\ parsed = None
  /\ reads < MaxChunks
  /\ \E c \in Chunks : input' = input \o c
  /\ reads' = reads + 1
  /\ UNCHANGED <<parsed, value, output, converted>>

\* RESPValue::parse applied to the buffer
Parse ==
  /\ parsed = None
  /\ value # None => reads = 1
  /\ parsed' = Some(RESPValue_parse(input))
  /\ UNCHANGED <<input, reads, value, output, converted>>

\* a value built with the constructors (bulk_string, simple_string, ...)
Construct ==
  /\ value = None
  /\ reads = 0
  /\ parsed = None
  /\ \E v \in Values : value' = Some(v)
  /\ UNCHANGED <<input, reads, parsed, output, converted>>

\* format!("{}", value)
Format ==
  /\ value # None
  /\ output = None
  /\ converted = None
  /\ output' = Some(Display(value[1]))
  /\ UNCHANGED <<input, reads, parsed, value, converted>>

\* the rendered bytes are written out and become a parser's buffer
Send ==
  /\ output # None
  /\ reads = 0
  /\ input' = output[1]
  /\ reads' = 1
  /\ UNCHANGED <<parsed, value, output, converted>>

\* a projection of value: what was converted, into which type, and the result
Conversion(T, v) == Some([target |-> T, source |-> v, result |-> try_from(T, v)])

\* i64::try_from(value)
TryIntoI64 ==
  /\ value # None
  /\ output = None
  /\ converted = None
  /\ converted' = Conversion(i64, value[1])
  /\ UNCHANGED <<input, reads, parsed, value, output>>

\* BulkString::try_from(value)
TryIntoBulkString ==
  /\ value # None
  /\ output = None
  /\ converted = None
  /\ converted' = Conversion(BulkStringT, value[1])
  /\ UNCHANGED <<input, reads, parsed, value, output>>

\* SimpleString::try_from(value)
TryIntoSimpleString ==
  /\ value # None
  /\ output = None
  /\ converted = None
  /\ converted' = Conversion(SimpleStringT, value[1])
  /\ UNCHANGED <<input, reads, parsed, value, output>>

\* RESPError::try_from(value)
TryIntoRESPError ==
  /\ value # None
  /\ output = None
  /\ converted = None
  /\ converted' = Conversion(RESPErrorT, value[1])
  /\ UNCHANGED <<input, reads, parsed, value, output>>

\* Option::<Vec<T>>::try_from(value)
TryIntoOptionVec ==
  /\ value # None
  /\ output = None
  /\ converted = None
  /\ \E T \in ElementTargets : converted' = Conversion(OptionVec(T), value[1])
  /\ UNCHANGED <<input, reads, parsed, value, output>>

\* handle_command: the parsed value is converted into Option<Vec<BulkString>>
Command ==
  /\ parsed # None
  /\ parsed[1].kind = "Ok"
  /\ converted = None
  /\ converted' = Conversion(OptionVec(BulkStringT), parsed[1].val)
  /\ UNCHANGED <<input, reads, parsed, value, output>>

Next ==
  \/ Recv
  \/ Parse
  \/ Construct
  \/ Format
  \/ Send
  \/ TryIntoI64
  \/ TryIntoBulkString
  \/ TryIntoSimpleString
  \/ TryIntoRESPError
  \/ TryIntoOptionVec
  \/ Command

Spec == Init /\ [][Next]_vars

---------------------------------------------------------------------------
(* Reading an input buffer independently of the parser *)

IsDigit(b) == b >= ZERO /\ b <= NINE

\* bytes without its first n
Drop(bytes, n) == SubSeq(bytes, n + 1, Len(bytes))

StartsWithCLRF(bytes) == Len(bytes) >= 2 /\ bytes[1] = CR /\ bytes[2] = LF

\* how many digit bytes bytes starts with
RECURSIVE LeadingDigits(_)
LeadingDigits(bytes) ==
  IF bytes # <<>> /\ IsDigit(bytes[1]) THEN 1 + LeadingDigits(Tail(bytes)) ELSE 0

\* the base-10 value of a run of digit bytes
RECURSIVE DecValue(_)
DecValue(ds) ==
  IF ds = <<>> THEN 0
  ELSE DecValue(SubSeq(ds, 1, Len(ds) - 1)) * 10 + (ds[Len(ds)] - ZERO)

\* whether a CR LF pair occurs in bytes, and where the first one starts
HasCLRF(bytes) == \E j \in 1..Len(bytes) : StartsWithCLRF(Drop(bytes, j - 1))
FirstCLRF(bytes) ==
  CHOOSE j \in 1..Len(bytes) :
    /\ StartsWithCLRF(Drop(bytes, j - 1))
    /\ \A i \in 1..(j - 1) : ~StartsWithCLRF(Drop(bytes, i - 1))

\* the buffer is: tag, one or more digits, CR LF, anything
HasLength(tag) ==
  /\ input # <<>>
  /\ input[1] = tag
  /\ LeadingDigits(Tail(input)) >= 1
  /\ StartsWithCLRF(Drop(input, 1 + LeadingDigits(Tail(input))))
DeclaredLength == DecValue(SubSeq(input, 2, 1 + LeadingDigits(Tail(input))))
AfterLength == Drop(input, 3 + LeadingDigits(Tail(input)))

\* the buffer is: tag, '-', one or more digits, CR LF, anything
HasNegLength(tag) ==
  /\ Len(input) >= 2
  /\ input[1] = tag
  /\ input[2] = MINUS
  /\ LeadingDigits(Drop(input, 2)) >= 1
  /\ StartsWithCLRF(Drop(input, 2 + LeadingDigits(Drop(input, 2))))
NegMagnitude == DecValue(SubSeq(input, 3, 2 + LeadingDigits(Drop(input, 2))))
AfterNegLength == Drop(input, 4 + LeadingDigits(Drop(input, 2)))

\* the parser has run on the buffer
Parsed == parsed # None
Result == parsed[1]
\* a value was rendered
Rendered == output # None

---------------------------------------------------------------------------
(* Claims *)

\* C1: for every input, parse ends in Ok or in one ParseError, never in an
\* uncontrolled fault (an index out of bounds).
C1_NeverFaults == Parsed => Result.kind \in { "Ok", "Err" }

\* a value with no BulkString(None) and no Array(None) at any depth
RECURSIVE NoNullMarker(_)
NoNullMarker(v) ==
  IF v.type = "BulkString" THEN v.s # None
  ELSE IF v.type = "Array"
  THEN v.a # None /\ \A k \in 1..Len(v.a[1]) : NoNullMarker(v.a[1][k])
  ELSE TRUE

\* C2: round trip: parsing the wire rendering of a value without null
\* markers gives the value back, with no bytes remaining.
C2_RoundTrip ==
  (Parsed /\ Rendered /\ input = output[1] /\ NoNullMarker(value[1]))
    => Result = Ok(value[1], <<>>)

\* the renderings of the elements, one after the other
RECURSIVE Renderings(_)
Renderings(values) ==
  IF values = <<>> THEN <<>>
  ELSE Display(Head(values)) \o Renderings(Tail(values))

\* C3: a present array renders as '*', the decimal count, CR LF, then the
\* renderings of its elements and nothing else.
C3_ArrayRendering ==
  (Rendered /\ value[1].type = "Array" /\ value[1].a # None)
    => output[1] = <<STAR>> \o Dec(Len(value[1].a[1])) \o CLRF
                     \o Renderings(value[1].a[1])

\* C4 as stated: a bulk string whose header declares n >= 0, followed by
\* exactly n payload bytes and nothing more, is the missing-terminator
\* error MissingCLRF.
C4_ExactPayloadIsMissingCLRF ==
  (Parsed /\ HasLength(DOLLAR) /\ Len(AfterLength) = DeclaredLength)
    => Result = Err(MissingCLRF)

\* C4 as amended: a bulk string whose header declares n >= 0, followed by
\* exactly n payload bytes and nothing more, is NotEnoughBytes.
C4_ExactPayloadIsNotEnoughBytes ==
  (Parsed /\ HasLength(DOLLAR) /\ Len(AfterLength) = DeclaredLength)
    => Result = Err(NotEnoughBytes)

\* "$n\r\n" followed by exactly n >= 1 payload bytes was parsed
C4_Witness ==
  /\ Parsed
  /\ HasLength(DOLLAR)
  /\ DeclaredLength >= 1
  /\ Len(AfterLength) = DeclaredLength

\* C5: a bulk string header declaring n >= 0 with r bytes after it: r <= n
\* is NotEnoughBytes; otherwise bytes n and n+1 not being CR LF is
\* MissingCLRF; otherwise the value is the first n bytes and the remaining
\* bytes are those after offset n+2.
C5_BulkStringCases ==
  (Parsed /\ HasLength(DOLLAR)) =>
    LET n == DeclaredLength
        after == AfterLength
    IN IF Len(after) <= n THEN Result = Err(NotEnoughBytes)
       ELSE IF ~StartsWithCLRF(Drop(after, n)) THEN Result = Err(MissingCLRF)
       ELSE Result = Ok(BulkString(Some(SubSeq(after, 1, n))), Drop(after, n + 2))

\* a bulk string with a payload of at least one byte was parsed
C5_Witness ==
  /\ Parsed
  /\ HasLength(DOLLAR)
  /\ DeclaredLength >= 1
  /\ Result.kind = "Ok"
  /\ Len(Result.val.s[1]) = DeclaredLength

\* C6: for '$' and '*', the length -1 is the null value with the remaining
\* bytes those after the header's CR LF, and every length below -1 is
\* NegativeValueLength whatever follows.
C6_NegativeLengths ==
  /\ (Parsed /\ HasNegLength(DOLLAR)) =>
       IF NegMagnitude = 1 THEN Result = Ok(BulkString(None), AfterNegLength)
       ELSE NegMagnitude > 1 => Result = Err(NegativeValueLength)
  /\ (Parsed /\ HasNegLength(STAR)) =>
       IF NegMagnitude = 1 THEN Result = Ok(Array(None), AfterNegLength)
       ELSE NegMagnitude > 1 => Result = Err(NegativeValueLength)

\* an array header with a length below -1, with bytes after it, was parsed
C6_Witness ==
  /\ Parsed
  /\ HasNegLength(STAR)
  /\ NegMagnitude > 1
  /\ AfterNegLength # <<>>

\* C7: the null and the empty bulk string render as "$-1\r\n" and
\* "$0\r\n\r\n", those bytes parse back to the null and the empty bulk
\* string with nothing remaining, and the two values are unequal.
C7_NullIsNotEmpty ==
  /\ BulkString(None) # BulkString(Some(<<>>))
  /\ (Rendered /\ value[1] = BulkString(None))
       => output[1] = <<DOLLAR, MINUS, ZERO + 1, CR, LF>>
  /\ (Rendered /\ value[1] = BulkString(Some(<<>>)))
       => output[1] = <<DOLLAR, ZERO, CR, LF, CR, LF>>
  /\ (Parsed /\ input = <<DOLLAR, MINUS, ZERO + 1, CR, LF>>)
       => Result = Ok(BulkString(None), <<>>)
  /\ (Parsed /\ input = <<DOLLAR, ZERO, CR, LF, CR, LF>>)
       => Result = Ok(BulkString(Some(<<>>)), <<>>)

\* the null bulk string was rendered and its bytes parsed
C7_Witness ==
  /\ Parsed
  /\ Rendered
  /\ value[1] = BulkString(None)
  /\ input = output[1]

\* an integer field that ends, or reaches a CR not followed by LF, after
\* its optional sign and digits
IntegerUnterminated(body) ==
  LET b == IF body # <<>> /\ body[1] = MINUS THEN Tail(body) ELSE body
      after == Drop(b, LeadingDigits(b))
  IN after = <<>> \/ (after[1] = CR /\ ~StartsWithCLRF(after))

\* C8: an Integer, SimpleString or Error whose input is exhausted before a
\* CR LF pair is found after the tag byte is MissingCLRF.
C8_ExhaustedIsMissingCLRF ==
  (/\ Parsed
   /\ input # <<>>
   /\ \/ input[1] \in { PLUS, MINUS } /\ ~HasCLRF(Tail(input))
      \/ input[1] = COLON /\ IntegerUnterminated(Tail(input)))
    => Result = Err(MissingCLRF)

\* C9: a SimpleString or Error with a CR LF pair after the tag has as text
\* the bytes between the tag and the first CR LF pair (a CR not followed by
\* LF included), leaves the bytes after that pair, and is a SimpleString
\* for '+' and an Error for '-'.
C9_TextUpToFirstCLRF ==
  (Parsed /\ input # <<>> /\ input[1] \in { PLUS, MINUS } /\ HasCLRF(Tail(input)))
    => LET body == Tail(input)
           j == FirstCLRF(body)
           text == SubSeq(body, 1, j - 1)
       IN Result = Ok(IF input[1] = PLUS THEN SimpleString(text) ELSE Error(text),
                      Drop(body, j + 1))

\* an Error whose text holds a CR, with bytes left after it, was parsed
C9_Witness ==
  /\ Parsed
  /\ input # <<>>
  /\ input[1] = MINUS
  /\ Result.kind = "Ok"
  /\ Result.rest # <<>>
  /\ \E i \in 1..Len(Result.val.s) : Result.val.s[i] = CR

\* C10: parse never returns Ok for an Integer, or for a bulk string or an
\* array, whose integer field has no digit.
C10_DigitsRequired ==
  (Parsed /\ input # <<>> /\ input[1] \in { COLON, DOLLAR, STAR } /\ Result.kind = "Ok")
    => LET body == Tail(input)
           b == IF body # <<>> /\ body[1] = MINUS THEN Tail(body) ELSE body
       IN LeadingDigits(b) >= 1

\* the integer field of the buffer: what follows the tag and the optional '-'
FieldSigned == Len(input) >= 2 /\ input[2] = MINUS
Field == IF FieldSigned THEN Drop(input, 2) ELSE Drop(input, 1)
IntegerTags == { COLON, DOLLAR, STAR }

\* C11, first part: an Integer whose field is an optional '-', digits and
\* CR LF has the base-10 value of the digits, negated after a '-', and
\* leaves the bytes after the CR LF.
C11_IntegerValue ==
  (/\ Parsed
   /\ input # <<>>
   /\ input[1] = COLON
   /\ LeadingDigits(Field) >= 1
   /\ StartsWithCLRF(Drop(Field, LeadingDigits(Field))))
    => LET k == LeadingDigits(Field)
           magnitude == DecValue(SubSeq(Field, 1, k))
       IN Result = Ok(Integer(IF FieldSigned THEN 0 - magnitude ELSE magnitude),
                      Drop(Field, k + 2))

\* the positions of the field, before its first CR LF pair, that hold a
\* byte that is neither a digit nor CR
NonNumericBeforeCLRF ==
  { i \in 1..(FirstCLRF(Field) - 1) : ~IsDigit(Field[i]) /\ Field[i] # CR }

\* C11 as stated: the first part, and an integer field (of an Integer, a
\* bulk string length or an array length) in which a byte that is neither a
\* digit nor CR occurs before the terminator is
\* UnexpectedNonNumericCharacter carrying the first such byte.
C11_NonNumericBeforeTerminator ==
  /\ C11_IntegerValue
  /\ (/\ Parsed
      /\ input # <<>>
      /\ input[1] \in IntegerTags
      /\ HasCLRF(Field)
      /\ NonNumericBeforeCLRF # {})
       => LET i == CHOOSE i \in NonNumericBeforeCLRF :
                     \A j \in NonNumericBeforeCLRF : i <= j
          IN Result = Err(UnexpectedNonNumericCharacter(Field[i]))

\* C11 as amended: the first part, and an integer field whose first byte
\* that is not a digit is not CR either is UnexpectedNonNumericCharacter
\* carrying that byte.
C11_FirstNonDigit ==
  /\ C11_IntegerValue
  /\ (/\ Parsed
      /\ input # <<>>
      /\ input[1] \in IntegerTags
      /\ Drop(Field, LeadingDigits(Field)) # <<>>
      /\ Field[LeadingDigits(Field) + 1] # CR)
       => Result = Err(UnexpectedNonNumericCharacter(Field[LeadingDigits(Field) + 1]))

\* a bulk string length with digits and then a byte that is neither a
\* digit nor CR, with a terminator after it, was parsed
C11_Witness ==
  /\ Parsed
  /\ input # <<>>
  /\ input[1] = DOLLAR
  /\ LeadingDigits(Field) >= 1
  /\ Drop(Field, LeadingDigits(Field)) # <<>>
  /\ Field[LeadingDigits(Field) + 1] # CR
  /\ HasCLRF(Field)

\* how parsing n values one after the other from bytes ends, each value
\* read from the bytes the one before left, up to the first that fails
RECURSIVE ElementOutcomes(_, _)
ElementOutcomes(n, bytes) ==
  IF n = 0 THEN <<>>
  ELSE LET r == RESPValue_parse(bytes)
       IN IF r.kind # "Ok" THEN <<r>>
          ELSE <<r>> \o ElementOutcomes(n - 1, r.rest)

\* C12: an array header with count n >= 0 is followed by exactly n values
\* parsed in order, each from the bytes the previous one left; the result
\* is the array of those n values and the bytes left after the n-th, or,
\* when an element fails, that element's failure and never a shorter array.
C12_ArrayElements ==
  (Parsed /\ HasLength(STAR)) =>
    LET n == DeclaredLength
        rs == ElementOutcomes(n, AfterLength)
    IN IF \A k \in 1..Len(rs) : rs[k].kind = "Ok"
       THEN /\ Len(rs) = n
            /\ Result = Ok(Array(Some([k \in 1..n |-> rs[k].val])),
                           IF n = 0 THEN AfterLength ELSE rs[n].rest)
       ELSE Result = rs[Len(rs)]

\* an array of two values, the second a non-empty array, was parsed
C12_Witness ==
  /\ Parsed
  /\ HasLength(STAR)
  /\ DeclaredLength = 2
  /\ Result.kind = "Ok"
  /\ Result.val.a[1][2].type = "Array"
  /\ Result.val.a[1][2].a # None
  /\ Result.val.a[1][2].a[1] # <<>>

\* bytes that may follow a message in the buffer: one piece, or one piece
\* and a terminator
Extensions == Chunks \cup { c \o CLRF : c \in Chunks }

\* C13: when parse succeeds the remaining bytes are a suffix of the input,
\* and with any bytes appended to the input parse gives the same value and
\* the same remaining bytes followed by the appended ones.
C13_NoLookahead ==
  (Parsed /\ Result.kind = "Ok") =>
    /\ Len(Result.rest) <= Len(input)
    /\ Result.rest = Drop(input, Len(input) - Len(Result.rest))
    /\ \A x \in Extensions :
         RESPValue_parse(input \o x) = Ok(Result.val, Result.rest \o x)

\* a bulk string followed by bytes of the next message was parsed from the
\* caller's buffer
C13_Witness ==
  /\ Parsed
  /\ value = None
  /\ Result.kind = "Ok"
  /\ Result.rest # <<>>
  /\ Result.val.type = "BulkString"
  /\ Result.val.s # None

\* the five tag bytes
TagBytes == { PLUS, MINUS, COLON, DOLLAR, STAR }

\* the conversions between the data types and the bytes: a type's byte
\* converts back to the type, the five types have five bytes, and any other
\* byte is rejected with UnknownDataType of that byte
TagBijection ==
  /\ \A t \in RESPDataType : try_from_u8(into_u8(t)) = Ok(t, <<>>)
  /\ { into_u8(t) : t \in RESPDataType } = TagBytes
  /\ Cardinality(TagBytes) = Cardinality(RESPDataType)
  /\ \A b \in (0..255) \ TagBytes : try_from_u8(b) = Err(UnknownDataType(b))

\* C14: the tag mapping is a bijection between the five data types and the
\* bytes '+', '-', ':', '$', '*', every other byte is rejected with
\* UnknownDataType of it, and parse of an input whose first byte is none of
\* the five is UnknownDataType of that byte whatever follows.
C14_TagMapping ==
  /\ TagBijection
  /\ (Parsed /\ input # <<>> /\ input[1] \notin TagBytes)
       => Result = Err(UnknownDataType(input[1]))

\* an input starting with a byte that is no tag, with bytes after it, was
\* parsed
C14_Witness ==
  /\ Parsed
  /\ Len(input) >= 2
  /\ input[1] \notin TagBytes

\* a projection was made
Projected == converted # None

\* the variant of RESPValue a scalar target is made from
VariantOf(T) ==
  IF T = i64 THEN "Integer"
  ELSE IF T = BulkStringT THEN "BulkString"
  ELSE IF T = SimpleStringT THEN "SimpleString"
  ELSE "Error"

\* the payload a scalar variant carries
Payload(v) == IF v.type = "Integer" THEN v.i ELSE v.s

\* C15: a scalar projection (i64, BulkString, SimpleString, RESPError)
\* succeeds exactly when the source is the matching variant and then returns
\* the payload unchanged (a bulk string's Some or None kept); on any other
\* variant it is DataTypeMismatch(expected, actual) with actual the data
\* type of the source.
C15_ScalarProjections ==
  (Projected /\ converted[1].target \in ScalarTargets) =>
    LET T == converted[1].target
        src == converted[1].source
        r == converted[1].result
    IN IF src.type = VariantOf(T)
       THEN /\ r.kind = "Ok"
            /\ IF T = i64 THEN r.val = Payload(src)
               ELSE r.val.struct = T.name /\ r.val.f0 = Payload(src)
       ELSE r = Err(DataTypeMismatch(VariantOf(T), src.type))

\* an i64 was asked of a value that is not an Integer
C15_Witness ==
  /\ Projected
  /\ converted[1].target = i64
  /\ converted[1].source.type # "Integer"
  /\ converted[1].result.kind = "Err"

\* the conversion of each element taken alone
Outcomes(T, values) == [k \in 1..Len(values) |-> try_from(T, values[k])]

\* C16: the Option<Vec<T>> projection is None for a null array; for a
\* present array it is Some of the element conversions in order when all of
\* them convert, and otherwise the error of the first element that does not,
\* as that conversion gave it; for a source that is no array it is
\* DataTypeMismatch(Array, actual).
C16_VectorProjection ==
  (Projected /\ converted[1].target.name = "OptionVec") =>
    LET T == converted[1].target.of
        src == converted[1].source
        r == converted[1].result
    IN IF src.type # "Array" THEN r = Err(DataTypeMismatch("Array", src.type))
       ELSE IF src.a = None THEN r = OkValue(None)
       ELSE LET outs == Outcomes(T, src.a[1])
                failing == { k \in 1..Len(src.a[1]) : outs[k].kind # "Ok" }
            IN IF failing = {}
               THEN /\ r.kind = "Ok"
                    /\ r.val # None
                    /\ Len(r.val[1]) = Len(src.a[1])
                    /\ \A k \in 1..Len(src.a[1]) : r.val[1][k] = outs[k].val
               ELSE r = outs[CHOOSE k \in failing : \A j \in failing : k <= j]

\* a vector of i64 was asked of an array of two elements of different types,
\* neither of them an Integer
C16_Witness ==
  /\ Projected
  /\ converted[1].target = OptionVec(i64)
  /\ converted[1].source.type = "Array"
  /\ converted[1].source.a # None
  /\ Len(converted[1].source.a[1]) = 2
  /\ converted[1].source.a[1][1].type \notin
       { "Integer", converted[1].source.a[1][2].type }
  /\ converted[1].source.a[1][2].type # "Integer"
  /\ converted[1].result.kind = "Err"

====
